---- MODULE Spec2Model ----
(***************************************************************************)
(* Model of pebble/src/modules/analog_layer.c: the analog watch-face layer *)
(* (BSKY_AnalogLayer) with its four public operations and the update        *)
(* procedure the host renderer calls.                                       *)
(*                                                                          *)
(* The heap is modelled block by block: handle blocks (malloc/free) and     *)
(* layer blocks (layer_create_with_data/layer_destroy, which carry the      *)
(* co-allocated BSKY_AnalogData).  Every access to a block that is not      *)
(* allocated raises `fault`.  The update procedure is modelled by the       *)
(* sequence of graphics calls it issues, with their arguments.              *)
(***************************************************************************)
EXTENDS Integers, Sequences, FiniteSets, TLC

VARIABLES
    heap_handle,  \* handle blocks: [alloc, layer, data] per address
    heap_layer,   \* layer blocks: [alloc, frame, bounds, update_proc, dirty, data]
    owned,        \* handles the caller holds: returned by create, not yet destroyed
    caller,       \* per handle, what the caller passed: [frame, time]; time is {} or {T}
    last,         \* the last call: [op, h, ret, events, calls]
    tz,           \* the host's local-time offset from UTC, in seconds
    fault         \* TRUE once freed or unallocated memory was touched

vars == <<heap_handle, heap_layer, owned, caller, last, tz, fault>>

----------------------------------------------------------------------------
(* Bounds of the model *)

\* Number of handle blocks (and of layer blocks) the heap can hold at once.
MaxHandles == 1

\* Timestamps passed to set_time: 0, 1800 and k quarter days, k in 1..MaxQuarterDays.
MaxQuarterDays == 3

\* The null pointer; addresses are positive.
NULL == 0

\* The content of a field of a malloc'ed block before its first write.
UNINIT == -1

HandleAddrs == 1..MaxHandles
LayerAddrs == 1..MaxHandles

Times == {0, 1800} \cup {k * 21600 : k \in 1..MaxQuarterDays}

TZOffsets == {0, 19800}

GRect(x, y, w, h) == [x |-> x, y |-> y, w |-> w, h |-> h]

\* Frames passed to create: all with positive width and height.
Frames == { GRect(0, 0, 180, 180),
            GRect(0, 0, 144, 168),
            GRect(10, 20, 12, 30),
            GRect(0, 0, 1200, 1152) }

----------------------------------------------------------------------------
(* C arithmetic *)

\* C integer division truncates toward zero.
CDiv(a, b) ==
    IF (a >= 0) = (b > 0) THEN (IF a >= 0 THEN a ELSE -a) \div (IF b > 0 THEN b ELSE -b)
    ELSE -((IF a >= 0 THEN a ELSE -a) \div (IF b > 0 THEN b ELSE -b))

\* Conversion to a signed integer of w bits.  For a value out of range the
\* result is implementation-defined; the Pebble toolchain (GCC) reduces it
\* modulo 2^w.
ToSigned(x, w) == ((x + 2^(w-1)) % 2^w) - 2^(w-1)
ToInt8(x) == ToSigned(x, 8)
ToInt16(x) == ToSigned(x, 16)

----------------------------------------------------------------------------
(* Host time subsystem *)

\* localtime(&time): the calendar fields of time in the host's timezone.  Only
\* the two fields the module reads are kept.
localtime(time) ==
    [tm_hour |-> ((time + tz) \div 3600) % 24,
     tm_min  |-> ((time + tz) \div 60) % 60]

----------------------------------------------------------------------------
(* State per analog layer, and the two kinds of heap block *)

\* BSKY_AnalogData as layer_create_with_data leaves it: zero-filled.
BSKY_AnalogData ==
    [unix_time |-> 0,
     wall_time |-> [tm_hour |-> 0, tm_min |-> 0],
     sky_thickness |-> 0]

\* struct BSKY_AnalogLayer; `data` points into the block of a layer, so it is
\* named by that layer's address.
BSKY_AnalogLayer(layer, data) == [alloc |-> TRUE, layer |-> layer, data |-> data]

FreeHandleBlock == [alloc |-> FALSE, layer |-> NULL, data |-> NULL]

FreeLayerBlock ==
    [alloc |-> FALSE, frame |-> GRect(0, 0, 0, 0), bounds |-> GRect(0, 0, 0, 0),
     update_proc |-> "none", dirty |-> FALSE, data |-> BSKY_AnalogData]

\* A memory is a record [hh, hl, fault, ev]: the handle blocks, the layer
\* blocks, the fault flag and the allocation events of the call in progress.
Ev(name, addr) == [ev |-> name, addr |-> addr]

Fault(m) == [m EXCEPT !.fault = TRUE]

\* malloc(sizeof(*analog_layer)) returning a: NULL, or a block not in use.
malloc(m, a) ==
    IF a = NULL THEN [m EXCEPT !.ev = Append(@, Ev("malloc", NULL))]
    ELSE [m EXCEPT !.hh[a] = BSKY_AnalogLayer(UNINIT, UNINIT),
                   !.ev = Append(@, Ev("malloc", a))]

\* free(a).
free(m, a) ==
    IF a = NULL THEN m
    ELSE IF ~m.hh[a].alloc THEN Fault(m)
    ELSE [m EXCEPT !.hh[a] = FreeHandleBlock,
                   !.ev = Append(@, Ev("free", a))]

\* layer_create_with_data(frame, sizeof(BSKY_AnalogData)) returning l: NULL, or
\* a new layer whose frame is `frame`, whose bounds have the frame's size at
\* origin (0,0) (the host's layer_create contract) and whose data is zeroed.
layer_create_with_data(m, l, frame) ==
    IF l = NULL THEN [m EXCEPT !.ev = Append(@, Ev("layer_create", NULL))]
    ELSE [m EXCEPT !.hl[l] = [alloc |-> TRUE,
                              frame |-> frame,
                              bounds |-> GRect(0, 0, frame.w, frame.h),
                              update_proc |-> "none",
                              dirty |-> FALSE,
                              data |-> BSKY_AnalogData],
                   !.ev = Append(@, Ev("layer_create", l))]

\* layer_destroy(l): releases the layer block and the data stored in it.
layer_destroy(m, l) ==
    IF l \notin LayerAddrs \/ ~m.hl[l].alloc THEN Fault(m)
    ELSE [m EXCEPT !.hl[l] = FreeLayerBlock,
                   !.ev = Append(@, Ev("layer_destroy", l))]

\* layer_set_update_proc(l, proc).
layer_set_update_proc(m, l, proc) ==
    IF l \notin LayerAddrs \/ ~m.hl[l].alloc THEN Fault(m)
    ELSE [m EXCEPT !.hl[l].update_proc = proc]

\* layer_mark_dirty(l).
layer_mark_dirty(m, l) ==
    IF l \notin LayerAddrs \/ ~m.hl[l].alloc THEN Fault(m)
    ELSE [m EXCEPT !.hl[l].dirty = TRUE]

\* analog_layer->field = v.
StoreHandle(m, a, field, v) ==
    IF a \notin HandleAddrs \/ ~m.hh[a].alloc THEN Fault(m)
    ELSE [m EXCEPT !.hh[a][field] = v]

\* analog_layer->data->field = v, where d names the layer block data points into.
StoreData(m, d, field, v) ==
    IF d \notin LayerAddrs \/ ~m.hl[d].alloc THEN Fault(m)
    ELSE [m EXCEPT !.hl[d].data[field] = v]

\* Whether reading analog_layer->field is a read of allocated memory.
Readable(m, a) == a \in HandleAddrs /\ m.hh[a].alloc

Mem == [hh |-> heap_handle, hl |-> heap_layer, fault |-> fault, ev |-> << >>]

----------------------------------------------------------------------------
(* The update procedure: bsky_analog_layer_update *)

\* A full turn of the host's fixed-point angle unit (pebble.h: 0x10000).
TRIG_MAX_ANGLE == 65536

\* The host's point on the oval inscribed in rect at angle, kept symbolic: the
\* module only passes the two arguments on.
gpoint_from_polar(rect, angle) == [rect |-> rect, angle |-> angle]

\* bsky_rect_trim(rect, trim): trim is an int8_t parameter, the fields of the
\* result are int16_t.
bsky_rect_trim(rect, trim) ==
    LET t == ToInt8(trim)
    IN  [x |-> ToInt16(rect.x + t),
         y |-> ToInt16(rect.y + t),
         w |-> ToInt16(rect.w - t * 2),
         h |-> ToInt16(rect.h - t * 2)]

color_sky_fill == <<"GColorCyan", "GColorElectricBlue", "GColorCeleste">>

color_sky_fill_len == Len(color_sky_fill)

\* const int16_t sky_thickness: a sixth of the shorter side.
sky_thickness(sky_bounds) ==
    ToInt16(IF sky_bounds.w > sky_bounds.h
            THEN CDiv(sky_bounds.h, 6)
            ELSE CDiv(sky_bounds.w, 6))

\* The trim passed to bsky_rect_trim for sky band sky_fill.
sky_fill_trim(sky_bounds, sky_fill) ==
    CDiv(sky_thickness(sky_bounds) * sky_fill, color_sky_fill_len)

\* One pass of the sky loop: set the fill color, fill the radial.
sky_band(sky_bounds, sky_fill) ==
    [fill_color |-> color_sky_fill[sky_fill + 1],
     rect |-> bsky_rect_trim(sky_bounds, sky_fill_trim(sky_bounds, sky_fill)),
     scale_mode |-> "GOvalScaleModeFitCircle",
     inset_thickness |-> CDiv(sky_thickness(sky_bounds), color_sky_fill_len),
     angle_start |-> 0,
     angle_end |-> TRIG_MAX_ANGLE]

midnight_angle == CDiv(TRIG_MAX_ANGLE, 2)

\* The rectangle the hour markers start from.
sky_inset(sky_bounds) == bsky_rect_trim(sky_bounds, sky_thickness(sky_bounds))

\* hour_angle with the division done before the multiplication.
hour_angle_step_first(hour) ==
    (midnight_angle + hour * CDiv(TRIG_MAX_ANGLE, 24)) % TRIG_MAX_ANGLE

hour_angle(hour) ==
    (midnight_angle + CDiv(hour * TRIG_MAX_ANGLE, 24)) % TRIG_MAX_ANGLE

hour_stroke_width(hour) == IF hour % 3 # 0 THEN 1 ELSE 3

\* One pass of the hour loop: two polar points, the stroke width, the line.
hour_marker(bounds, hour) ==
    [p0 |-> gpoint_from_polar(sky_inset(bounds), hour_angle(hour)),
     p1 |-> gpoint_from_polar(bounds, hour_angle(hour)),
     stroke_width |-> hour_stroke_width(hour)]

\* Number of passes of the hour loop (hour = 0 .. 23).
hour_markers == 24

sun_angle(tm_hour, tm_min) ==
    midnight_angle
    + CDiv(TRIG_MAX_ANGLE * tm_hour, 24)
    + CDiv(TRIG_MAX_ANGLE * tm_min, 24 * 60)

sun_diameter(sky_bounds) == CDiv(sky_thickness(sky_bounds) * 3, 4)

sun_orbit(sky_bounds) ==
    bsky_rect_trim(sky_bounds, CDiv(sky_thickness(sky_bounds), 2))

\* The graphics calls of one update, in the order issued, with their arguments.
DrawCalls(data, bounds) ==
    LET sun_center == gpoint_from_polar(
                          sun_orbit(bounds),
                          sun_angle(data.wall_time.tm_hour, data.wall_time.tm_min))
    IN  [fill_rect |-> <<[fill_color |-> "GColorClear", rect |-> bounds]>>,
         fill_radial |-> [i \in 1..color_sky_fill_len |-> sky_band(bounds, i - 1)],
         draw_line |-> [i \in 1..hour_markers |-> hour_marker(bounds, i - 1)],
         circle |-> << [call |-> "graphics_fill_circle",
                        color |-> "GColorYellow",
                        center |-> sun_center,
                        radius |-> CDiv(sun_diameter(bounds), 2),
                        stroke_width |-> 0],
                       [call |-> "graphics_draw_circle",
                        color |-> "GColorDarkCandyAppleRed",
                        center |-> sun_center,
                        radius |-> CDiv(sun_diameter(bounds), 2),
                        stroke_width |-> 2] >>]

\* What an operation other than the update draws.
NoCalls == [fill_rect |-> << >>, fill_radial |-> << >>, draw_line |-> << >>, circle |-> << >>]

\* An update that caches the thickness it computed in the state.
update_caching_thickness(data, bounds) ==
    [data |-> [data EXCEPT !.sky_thickness = sky_thickness(bounds)],
     calls |-> DrawCalls(data, bounds)]

\* bsky_analog_layer_update(layer, ctx): data and bounds are read through const
\* qualified locals; the result is the data as the procedure leaves it and the
\* calls it issued on ctx.
bsky_analog_layer_update(data, bounds) ==
    [data |-> data, calls |-> DrawCalls(data, bounds)]

----------------------------------------------------------------------------
(* The public operations, as functions from memory to memory *)

\* create_release without the free: the handle block stays allocated.
create_release_leak(m, analog_layer) ==
    [m |-> m, ret |-> NULL]

\* create, the branch taken when layer_create_with_data returned NULL:
\* free(analog_layer); analog_layer = NULL.
create_release(m, analog_layer) ==
    [m |-> free(m, analog_layer), ret |-> NULL]

\* create_attach without the assignment of analog_layer->data.
create_attach_no_data(m, analog_layer) ==
    [m |-> layer_set_update_proc(m, m.hh[analog_layer].layer, "bsky_analog_layer_update"),
     ret |-> analog_layer]

\* create, the branch taken when the layer exists: data = layer_get_data(layer),
\* then layer_set_update_proc(layer, bsky_analog_layer_update).
create_attach(m, analog_layer) ==
    LET layer == m.hh[analog_layer].layer
        m1 == StoreHandle(m, analog_layer, "data", layer)
    IN  [m |-> layer_set_update_proc(m1, layer, "bsky_analog_layer_update"),
         ret |-> analog_layer]

\* bsky_analog_layer_create(frame), where a is what malloc returns and l what
\* layer_create_with_data returns (it is called only when a is not NULL).
bsky_analog_layer_create(m, a, l, frame) ==
    LET m1 == malloc(m, a)
    IN  IF a # NULL
        THEN LET m2 == StoreHandle(layer_create_with_data(m1, l, frame), a, "layer", l)
             IN  IF m2.hh[a].layer = NULL
                 THEN create_release(m2, a)
                 ELSE create_attach(m2, a)
        ELSE [m |-> m1, ret |-> a]

\* The statements of destroy with the handle freed first.
destroy_body_free_first ==
    << "free(analog_layer)",
       "layer_destroy(analog_layer->layer)",
       "analog_layer->layer = NULL",
       "analog_layer->data = NULL" >>

\* The statements of bsky_analog_layer_destroy, in order.
bsky_analog_layer_destroy_body ==
    << "layer_destroy(analog_layer->layer)",
       "analog_layer->layer = NULL",
       "analog_layer->data = NULL",
       "free(analog_layer)" >>

ExecDestroyStmt(m, analog_layer, stmt) ==
    CASE stmt = "layer_destroy(analog_layer->layer)" ->
             IF Readable(m, analog_layer)
             THEN layer_destroy(m, m.hh[analog_layer].layer)
             ELSE Fault(m)
      [] stmt = "analog_layer->layer = NULL" -> StoreHandle(m, analog_layer, "layer", NULL)
      [] stmt = "analog_layer->data = NULL" -> StoreHandle(m, analog_layer, "data", NULL)
      [] stmt = "free(analog_layer)" -> free(m, analog_layer)

RECURSIVE ExecDestroy(_, _, _)
ExecDestroy(m, analog_layer, stmts) ==
    IF stmts = << >> THEN m
    ELSE ExecDestroy(ExecDestroyStmt(m, analog_layer, Head(stmts)), analog_layer, Tail(stmts))

\* bsky_analog_layer_destroy(analog_layer).
bsky_analog_layer_destroy(m, analog_layer) ==
    ExecDestroy(m, analog_layer, bsky_analog_layer_destroy_body)

\* bsky_analog_layer_get_layer(analog_layer): the value returned.
bsky_analog_layer_get_layer(m, analog_layer) ==
    [m |-> IF Readable(m, analog_layer) THEN m ELSE Fault(m),
     ret |-> m.hh[analog_layer].layer]

\* set_time that stores the timestamp but not its local decomposition.
set_time_no_wall_time(m, analog_layer, time) ==
    IF ~Readable(m, analog_layer) THEN Fault(m)
    ELSE LET data == m.hh[analog_layer].data
             m1 == StoreData(m, data, "unix_time", time)
         IN  layer_mark_dirty(m1, m.hh[analog_layer].layer)

\* bsky_analog_layer_set_time(analog_layer, time).
bsky_analog_layer_set_time(m, analog_layer, time) ==
    IF ~Readable(m, analog_layer) THEN Fault(m)
    ELSE LET data == m.hh[analog_layer].data
             m1 == StoreData(m, data, "unix_time", time)
             wall_time == localtime(time)
             m2 == StoreData(m1, data, "wall_time", wall_time)
         IN  layer_mark_dirty(m2, m.hh[analog_layer].layer)

----------------------------------------------------------------------------
(* The state machine *)

NoCaller == [frame |-> GRect(0, 0, 0, 0), time |-> {}]

Call(op, h, ret, events, calls) ==
    [op |-> op, h |-> h, ret |-> ret, events |-> events, calls |-> calls]

Init ==
    /\ heap_handle = [a \in HandleAddrs |-> FreeHandleBlock]
    /\ heap_layer = [l \in LayerAddrs |-> FreeLayerBlock]
    /\ owned = {}
    /\ caller = [a \in HandleAddrs |-> NoCaller]
    /\ last = Call("none", NULL, NULL, << >>, NoCalls)
    /\ tz \in TZOffsets
    /\ fault = FALSE

Commit(m) ==
    /\ heap_handle' = m.hh
    /\ heap_layer' = m.hl
    /\ fault' = m.fault

\* The embedder calls bsky_analog_layer_create(frame); the allocators answer
\* with a block that is not in use, or with NULL.
Create ==
    \E frame \in Frames :
    \E a \in {NULL} \cup {x \in HandleAddrs : ~heap_handle[x].alloc} :
    \E l \in {NULL} \cup {x \in LayerAddrs : ~heap_layer[x].alloc} :
        /\ a = NULL => l = NULL
        /\ LET r == bsky_analog_layer_create(Mem, a, l, frame)
           IN  /\ Commit(r.m)
               /\ owned' = IF r.ret # NULL THEN owned \cup {r.ret} ELSE owned
               /\ caller' = IF r.ret # NULL
                            THEN [caller EXCEPT ![r.ret] = [frame |-> frame, time |-> {}]]
                            ELSE caller
               /\ last' = Call("create", NULL, r.ret, r.m.ev, NoCalls)
        /\ UNCHANGED tz

\* The embedder destroys a handle it holds.
Destroy ==
    \E h \in owned :
        LET m == bsky_analog_layer_destroy(Mem, h)
        IN  /\ Commit(m)
            /\ owned' = owned \ {h}
            /\ caller' = [caller EXCEPT ![h] = NoCaller]
            /\ last' = Call("destroy", h, NULL, m.ev, NoCalls)
            /\ UNCHANGED tz

\* The embedder asks for the layer of a handle it holds.
GetLayer ==
    \E h \in owned :
        LET r == bsky_analog_layer_get_layer(Mem, h)
        IN  /\ Commit(r.m)
            /\ last' = Call("get_layer", h, r.ret, r.m.ev, NoCalls)
            /\ UNCHANGED <<owned, caller, tz>>

\* The embedder sets the time of a handle it holds.
SetTime ==
    \E h \in owned : \E time \in Times :
        LET m == bsky_analog_layer_set_time(Mem, h, time)
        IN  /\ Commit(m)
            /\ caller' = [caller EXCEPT ![h].time = {time}]
            /\ last' = Call("set_time", h, NULL, m.ev, NoCalls)
            /\ UNCHANGED <<owned, tz>>

\* The host renderer runs the update procedure of a layer that has one, and
\* the layer is clean afterwards.
HostUpdate ==
    \E l \in LayerAddrs :
        /\ heap_layer[l].alloc
        /\ heap_layer[l].update_proc = "bsky_analog_layer_update"
        /\ LET r == bsky_analog_layer_update(heap_layer[l].data, heap_layer[l].bounds)
           IN  /\ heap_layer' = [heap_layer EXCEPT ![l].data = r.data, ![l].dirty = FALSE]
               /\ last' = Call("update", l, NULL, << >>, r.calls)
        /\ UNCHANGED <<heap_handle, owned, caller, tz, fault>>

Next == Create \/ Destroy \/ GetLayer \/ SetTime \/ HostUpdate

Spec == Init /\ [][Next]_vars

----------------------------------------------------------------------------
(* Properties: lifecycle *)

AllocatedHandles == {a \in HandleAddrs : heap_handle[a].alloc}

AllocatedLayers == {l \in LayerAddrs : heap_layer[l].alloc}

OwnedLayers == {heap_handle[h].layer : h \in owned}

\* Every allocated block belongs to a handle the caller holds.
NoLeak == AllocatedHandles = owned /\ AllocatedLayers = OwnedLayers

CreateFailed == last.op = "create" /\ \E i \in 1..Len(last.events) : last.events[i].addr = NULL

\* C1: a create in which an allocation fails returns NULL and leaves no block
\* of that call allocated: either malloc failed and nothing else was tried, or
\* malloc gave a block, layer_create_with_data failed and that block was freed.
C1_CreateFailureReleasesAll ==
    /\ (last.op = "create" /\ last.ret = NULL) => CreateFailed
    /\ CreateFailed =>
        /\ last.ret = NULL
        /\ \/ last.events = <<Ev("malloc", NULL)>>
           \/ \E a \in HandleAddrs :
                last.events = <<Ev("malloc", a), Ev("layer_create", NULL), Ev("free", a)>>
        /\ NoLeak
        /\ ~fault

\* C1 witness: the handle was allocated, the layer was not, create returned NULL.
C1_Witness ==
    /\ last.op = "create"
    /\ last.ret = NULL
    /\ Len(last.events) = 3
    /\ last.events[1].addr # NULL
    /\ AllocatedHandles = {}

\* C2: no operation touches freed memory, no block outlives its handle, and a
\* destroy releases the layer (with its data) first and the handle second, each
\* once, whatever was called on the handle before.
C2_DestroyReleasesAll ==
    /\ ~fault
    /\ NoLeak
    /\ last.op = "destroy" =>
        /\ Len(last.events) = 2
        /\ last.events[1].ev = "layer_destroy"
        /\ last.events[1].addr \in LayerAddrs
        /\ ~heap_layer[last.events[1].addr].alloc
        /\ last.events[2] = Ev("free", last.h)
        /\ heap_handle[last.h] = FreeHandleBlock

\* C2 witness: a destroy has run and nothing is allocated.
C2_Witness ==
    /\ last.op = "destroy"
    /\ Len(last.events) = 2
    /\ AllocatedHandles = {}
    /\ AllocatedLayers = {}

\* The data block a live handle points to.
DataOf(h) == heap_layer[heap_handle[h].data].data

\* The angle of the polar call that places the sun in the last update.
LastSunAngle == last.calls.circle[1].center.angle

\* C3: once set_time(h, T) was called, the state holds T and the host's local
\* decomposition of T; right after the call the layer is dirty; and an update
\* of that layer places the sun from the hour and minute of the latest T.
C3_SetTimeThenUpdate ==
    /\ \A h \in owned : \A T \in caller[h].time :
        /\ heap_handle[h].data \in LayerAddrs
        /\ DataOf(h).unix_time = T
        /\ DataOf(h).wall_time.tm_hour = ((T + tz) \div 3600) % 24
        /\ DataOf(h).wall_time.tm_min = ((T + tz) \div 60) % 60
    /\ last.op = "set_time" => heap_layer[heap_handle[last.h].layer].dirty
    /\ last.op = "update" =>
        \A h \in owned : \A T \in caller[h].time :
            heap_handle[h].layer = last.h =>
                LastSunAngle = 32768
                    + (65536 * (((T + tz) \div 3600) % 24)) \div 24
                    + (65536 * (((T + tz) \div 60) % 60)) \div 1440

\* C3 witness: an update after set_time(h, 64800) in a zone at +5:30 placed the
\* sun for 23:30.
C3_Witness ==
    /\ last.op = "update"
    /\ tz = 19800
    /\ \E h \in owned : caller[h].time = {64800} /\ heap_handle[h].layer = last.h
    /\ LastSunAngle = 32768 + 62805 + 1365

LiveHandle(h) ==
    /\ heap_handle[h].alloc
    /\ heap_handle[h].layer \in LayerAddrs
    /\ heap_layer[heap_handle[h].layer].alloc
    /\ heap_handle[h].data = heap_handle[h].layer

\* C9, as stated: every live handle has a layer and a data pointer into that
\* layer's block, and get_layer returns that layer, whose bounds are the frame
\* passed to create.
C9_BoundsAreFrame ==
    /\ \A h \in owned : LiveHandle(h)
    /\ last.op = "get_layer" =>
        /\ last.ret = heap_handle[last.h].layer
        /\ last.ret # NULL
        /\ heap_layer[last.ret].bounds = caller[last.h].frame

\* The state part of C9 as amended: the layer get_layer returns was created
\* with the frame passed to create, and its bounds have that size at (0,0).
C9_LiveHandle ==
    /\ \A h \in owned : LiveHandle(h)
    /\ last.op = "get_layer" =>
        /\ last.ret = heap_handle[last.h].layer
        /\ last.ret # NULL
        /\ heap_layer[last.ret].frame = caller[last.h].frame
        /\ heap_layer[last.ret].bounds =
               GRect(0, 0, caller[last.h].frame.w, caller[last.h].frame.h)

\* C9, amended: every live handle has a layer and a data pointer into that
\* layer's block; get_layer returns that layer, whose frame is the frame passed
\* to create and whose bounds are that frame moved to origin (0,0); and
\* get_layer changes nothing.
C9_GetLayer ==
    /\ []C9_LiveHandle
    /\ [][last'.op = "get_layer" =>
            UNCHANGED <<heap_handle, heap_layer, owned, caller, fault>>]_vars

\* C9 witness: get_layer returned the layer of a handle created with a frame
\* whose origin is not (0,0).
C9_Witness ==
    /\ last.op = "get_layer"
    /\ last.ret \in LayerAddrs
    /\ caller[last.h].frame = GRect(10, 20, 12, 30)
    /\ heap_layer[last.ret].bounds = GRect(0, 0, 12, 30)

----------------------------------------------------------------------------
(* Properties: the update procedure *)

\* The last call was an update; last.h is the layer it drew.
Updated == last.op = "update"

LastBounds == heap_layer[last.h].bounds

LastHour == heap_layer[last.h].data.wall_time.tm_hour

LastMinute == heap_layer[last.h].data.wall_time.tm_min

Min(a, b) == IF a < b THEN a ELSE b

\* rect shrunk by k on every side, in exact arithmetic.
Shrink(rect, k) == GRect(rect.x + k, rect.y + k, rect.w - 2 * k, rect.h - 2 * k)

\* A sixth of the shorter side of the drawn bounds.
LastThickness == Min(LastBounds.w, LastBounds.h) \div 6

MajorHours == {0, 3, 6, 9, 12, 15, 18, 21}

\* The angular distance from tick h to the next tick, around the circle.
TickGap(h) ==
    (last.calls.draw_line[((h + 1) % 24) + 1].p0.angle
     - last.calls.draw_line[h + 1].p0.angle) % 65536

\* C4: an update draws 24 hour ticks; tick h, h in 0..23, has both its points
\* at the angle (180 + 15 h) mod 360 degrees expressed in units of 1/65536 turn
\* (rounded down), which is (half turn + h * full turn / 24) mod full turn; the
\* ticks are evenly spaced to the resolution of the unit (every gap is a 24th
\* of a turn rounded down or up); and tick h has stroke width 3 when h is a
\* multiple of 3 and 1 otherwise.
C4_HourTicks ==
    Updated =>
        /\ Len(last.calls.draw_line) = 24
        /\ \A h \in 0..23 :
            LET tick == last.calls.draw_line[h + 1]
            IN  /\ tick.p0.angle = (((180 + 15 * h) % 360) * 65536) \div 360
                /\ tick.p0.angle = (32768 + (h * 65536) \div 24) % 65536
                /\ tick.p1.angle = tick.p0.angle
                /\ tick.p1.rect = LastBounds
                /\ tick.stroke_width = IF h \in MajorHours THEN 3 ELSE 1
                /\ TickGap(h) \in {65536 \div 24, 65536 \div 24 + 1}

\* C4 witness: an update drew tick 1 at 195 degrees with width 1, tick 3 at
\* 225 degrees with width 3 and tick 12 at 0 degrees.
C4_Witness ==
    /\ Updated
    /\ last.calls.draw_line[2].p0.angle = 35498
    /\ last.calls.draw_line[2].stroke_width = 1
    /\ last.calls.draw_line[4].p0.angle = 40960
    /\ last.calls.draw_line[4].stroke_width = 3
    /\ last.calls.draw_line[13].p0.angle = 0

\* C5, as stated: the sun angle is 180 degrees at 0:00, 270 at 6:00, 0 or 360
\* at 12:00, 90 at 18:00 and 180 + 7.5 (rounded down) at 0:30.
C5_SunAngleAtHours ==
    Updated =>
        /\ (LastHour = 0 /\ LastMinute = 0) => LastSunAngle = 32768
        /\ (LastHour = 6 /\ LastMinute = 0) => LastSunAngle = 49152
        /\ (LastHour = 12 /\ LastMinute = 0) => LastSunAngle \in {0, 65536}
        /\ (LastHour = 18 /\ LastMinute = 0) => LastSunAngle = 16384
        /\ (LastHour = 0 /\ LastMinute = 30) => LastSunAngle = 32768 + 1365

\* The angles an update passes to gpoint_from_polar.
PolarAngles ==
    {last.calls.draw_line[i].p0.angle : i \in 1..Len(last.calls.draw_line)}
    \cup {last.calls.draw_line[i].p1.angle : i \in 1..Len(last.calls.draw_line)}
    \cup {last.calls.circle[i].center.angle : i \in 1..Len(last.calls.circle)}

\* C6, as stated: every angle an update passes to the polar conversion is at
\* least 0 and less than a full turn.
C6_AnglesWrapped ==
    Updated => \A angle \in PolarAngles : 0 <= angle /\ angle < 65536

\* The diameter of the circle the host fits in rect.
FitCircle(rect) == Min(rect.w, rect.h)

\* C7, as stated: band i, i in 0..2, is drawn in the bounds shrunk by
\* sky_thickness * i / 3, and the circle of each band is strictly smaller than
\* that of the band before it.
C7_BandInsets ==
    Updated =>
        /\ Len(last.calls.fill_radial) = 3
        /\ \A i \in 0..2 :
            last.calls.fill_radial[i + 1].rect
                = Shrink(LastBounds, (LastThickness * i) \div 3)
        /\ \A i \in 1..2 :
            FitCircle(last.calls.fill_radial[i + 1].rect)
                < FitCircle(last.calls.fill_radial[i].rect)

\* C8, as stated: the ticks start on the bounds shrunk by sky_thickness, the
\* sun is placed on the bounds shrunk by sky_thickness / 2, and for bounds
\* (0,0,180,180) these are 30 and 15, with a sun of diameter 22.
C8_InsetRectangles ==
    Updated =>
        /\ \A i \in 1..Len(last.calls.draw_line) :
            last.calls.draw_line[i].p0.rect = Shrink(LastBounds, LastThickness)
        /\ \A i \in 1..Len(last.calls.circle) :
            last.calls.circle[i].center.rect = Shrink(LastBounds, LastThickness \div 2)
        /\ LastBounds = GRect(0, 0, 180, 180) =>
            /\ last.calls.draw_line[1].p0.rect = GRect(30, 30, 120, 120)
            /\ last.calls.circle[1].center.rect = GRect(15, 15, 150, 150)
            /\ sun_diameter(LastBounds) = 22
            /\ last.calls.circle[1].radius = 11

\* The stored state with everything but the hour and the minute replaced.
OtherData(unix_time, thickness) ==
    [unix_time |-> unix_time,
     wall_time |-> heap_layer[last.h].data.wall_time,
     sky_thickness |-> thickness]

\* The calls of an update are those of any state with the same hour and minute.
C10_CallsFromHourMinuteBounds ==
    Updated =>
        \A unix_time \in Times : \A thickness \in {0, 30} :
            last.calls = DrawCalls(OtherData(unix_time, thickness), LastBounds)

\* C10: an update leaves the state of its layer as it was; no operation writes
\* the stored sky_thickness of a layer that stays allocated; and the calls of an
\* update are determined by the stored hour and minute and the bounds.
C10_UpdateIsPure ==
    /\ []C10_CallsFromHourMinuteBounds
    /\ [][/\ last'.op = "update" =>
                heap_layer'[last'.h].data = heap_layer[last'.h].data
          /\ \A l \in LayerAddrs :
                (heap_layer[l].alloc /\ heap_layer'[l].alloc) =>
                    heap_layer'[l].data.sky_thickness = heap_layer[l].data.sky_thickness
         ]_vars

\* C10 witness: an update ran on a layer whose time had been set to 18:00, and
\* the stored time is still there.
C10_Witness ==
    /\ Updated
    /\ heap_layer[last.h].data.unix_time = 64800
    /\ heap_layer[last.h].data.sky_thickness = 0
    /\ Len(last.calls.draw_line) = 24

====
